---- MODULE Spec2Model ----
(***************************************************************************)
(* Model of the Rummikub solver (src/src/solver.rs): the Inventory count   *)
(* table, the memo key Inventory::hash in wrapping 64-bit arithmetic, the  *)
(* meld finders, the memoized recursive search solve_rummikub, the random  *)
(* draw grab_tile, and the session loop solve().                           *)
(***************************************************************************)
EXTENDS Integers, Sequences, FiniteSets, TLC

VARIABLES memo, player, bag, pc, solution, draws, probe

vars == <<memo, player, bag, pc, solution, draws, probe>>

----------------------------------------------------------------------------
(* let v = x in F(v): x is computed once and F reads the value.  TLC reads  *)
(* an operator's argument anew at each use of the parameter, so a value     *)
(* that is used more than once is bound this way.                           *)
Bind(x, F(_)) == CHOOSE r \in {F(v) : v \in {x}} : TRUE

----------------------------------------------------------------------------
(* Program constants *)

\* grid: [[u8; 4]; 13]
NumNumbers == 13
NumColors == 4
\* Inventory::new(2): the supply holds two of every tile and two jokers
BagCount == 2
\* the multiplier of Inventory::hash
HashMul == 31

NumCells == NumNumbers * NumColors

----------------------------------------------------------------------------
(* Bounds of the model.  Cells are numbered row-major, k = 4 * row + column, *)
(* as the nested loops of the source visit them.                            *)

\* the session draws only the tiles of the cells 0 .. DrawCells - 1
DrawCells == 12
\* the session is followed for at most MaxDraws calls of grab_tile
MaxDraws == 3
\* the session run to its end draws only the tiles of the cells 0 .. LiveCells - 1
LiveCells == 3
\* the hands solve_rummikub is called on twice hold tiles of the cells 0 .. CallCells - 1
CallCells == 9
\* ... and at most CallTiles tiles and jokers
CallTiles == 6
\* the sources grab_tile is called on hold tiles in the cells 0 .. GrabCells - 1
GrabCells == 2
\* ... and grab_tile is called on each at most GrabCalls times
GrabCalls == 3
\* the hashed inventories include those with one tile in a cell 0 .. HashCells - 1
HashCells == 4

----------------------------------------------------------------------------
(* Inventory *)

\* Inventory::new(num)
NewInventory(num) ==
    [grid |-> [i \in 0..(NumNumbers - 1) |-> [j \in 0..(NumColors - 1) |-> num]],
     jokers |-> num]

\* is_empty testing the joker count where it should test the grid
IsEmptyJokers(inventory) == inventory.jokers = 0

\* Inventory::is_empty: the jokers are not looked at
IsEmpty(inventory) ==
    \A i \in 0..(NumNumbers - 1) : \A j \in 0..(NumColors - 1) :
        inventory.grid[i][j] = 0

\* the sum of the counts of rows i .. 12 (the flat_map and sum of total_tile_count)
RECURSIVE SumRows(_, _)
SumRows(inventory, i) ==
    IF i = NumNumbers THEN 0
    ELSE inventory.grid[i][0] + inventory.grid[i][1] + inventory.grid[i][2]
         + inventory.grid[i][3] + SumRows(inventory, i + 1)

\* Inventory::total_tile_count
TotalTileCount(inventory) == SumRows(inventory, 0) + inventory.jokers

\* Inventory::available_tiles: the (row, column) indices of the cells that hold a tile
AvailableTiles(inventory) ==
    {c \in (0..(NumNumbers - 1)) \X (0..(NumColors - 1)) : inventory.grid[c[1]][c[2]] > 0}

\* one iteration of remove_tiles: grid[number - 1][color] -= 1
RemoveTile(inventory, tile) ==
    [inventory EXCEPT !.grid[tile.number - 1][tile.color] = @ - 1]

\* Inventory::remove_tiles
RECURSIVE RemoveTiles(_, _)
RemoveTiles(inventory, tiles) ==
    IF tiles = <<>> THEN inventory
    ELSE RemoveTiles(RemoveTile(inventory, Head(tiles)), Tail(tiles))

----------------------------------------------------------------------------
(* Inventory::hash, in u64 arithmetic.  A u64 is four 16-bit limbs, least   *)
(* significant first, so that no intermediate value leaves TLC's integers.  *)

LimbBase == 256 * 256

U64(n) == <<n % LimbBase, 0, 0, 0>>

\* Four limb values, each below 2^31, reduced modulo 2^64: the carry of each
\* limb runs into the next and the carry out of the top limb is dropped.
Carry3(l1, l2, t3, t4) == <<l1, l2, t3 % LimbBase, (t4 + (t3 \div LimbBase)) % LimbBase>>
Carry2(l1, t2, t3, t4) == Carry3(l1, t2 % LimbBase, t3 + (t2 \div LimbBase), t4)
Carry1(t1, t2, t3, t4) == Carry2(t1 % LimbBase, t2 + (t1 \div LimbBase), t3, t4)

\* u64::wrapping_mul by a small factor
WrappingMul(h, m) ==
    Bind(h, LAMBDA v : Carry1(v[1] * m, v[2] * m, v[3] * m, v[4] * m))

\* u64::wrapping_add of a small number
WrappingAdd(h, a) ==
    Bind(h, LAMBDA v : IF v[1] + a < LimbBase
                       THEN <<v[1] + a, v[2], v[3], v[4]>>
                       ELSE Carry1(v[1] + a, v[2], v[3], v[4]))

\* the body of the for_each over the cells: hash * 31 + tile + i + j
HashCell(hash, tile, i, j) ==
    WrappingAdd(WrappingAdd(WrappingAdd(WrappingMul(hash, HashMul), tile), i), j)

\* the inner for_each over the four cells of row i
HashRow(hash, row, i) ==
    HashCell(HashCell(HashCell(HashCell(hash, row[0], i, 0), row[1], i, 1), row[2], i, 2),
             row[3], i, 3)

\* the outer for_each over rows i .. 12
RECURSIVE HashRows(_, _, _)
HashRows(inventory, i, hash) ==
    IF i = NumNumbers THEN hash
    ELSE Bind(HashRow(hash, inventory.grid[i], i),
              LAMBDA next : HashRows(inventory, i + 1, next))

\* Inventory::hash
Hash(inventory) ==
    Bind(inventory, LAMBDA inv :
        WrappingAdd(WrappingMul(HashRows(inv, 0, U64(0)), HashMul), inv.jokers))

----------------------------------------------------------------------------
(* Meld finders *)

Tile(color, number, is_joker) ==
    [color |-> color, number |-> number, is_joker |-> is_joker]

NoSet == [some |-> FALSE, tiles |-> <<>>]
SomeSet(tiles) == [some |-> TRUE, tiles |-> tiles]

\* the filter_map of try_form_set over colors k..3: every available color
RECURSIVE SetTiles(_, _, _)
SetTiles(inventory, number, color) ==
    IF color = NumColors THEN <<>>
    ELSE IF inventory.grid[number - 1][color] > 0
         THEN <<Tile(color, number, FALSE)>> \o SetTiles(inventory, number, color + 1)
         ELSE SetTiles(inventory, number, color + 1)

\* try_form_set keeping only the first three colors it finds
TryFormSetThree(inventory, number) ==
    LET set_tiles == SetTiles(inventory, number, 0)
    IN  IF Len(set_tiles) >= 3 THEN SomeSet(SubSeq(set_tiles, 1, 3)) ELSE NoSet

\* try_form_set
TryFormSet(inventory, number) ==
    LET set_tiles == SetTiles(inventory, number, 0)
    IN  IF Len(set_tiles) >= 3 THEN SomeSet(set_tiles) ELSE NoSet

\* the take_while of try_form_run over numbers number..13
RECURSIVE RunTiles(_, _, _)
RunTiles(inventory, number, color) ==
    IF number > NumNumbers THEN <<>>
    ELSE IF inventory.grid[number - 1][color] > 0
         THEN <<Tile(color, number, FALSE)>> \o RunTiles(inventory, number + 1, color)
         ELSE <<>>

\* try_form_run with its length test off by one
TryFormRunShort(inventory, start_number, color) ==
    LET run_tiles == RunTiles(inventory, start_number, color)
    IN  IF Len(run_tiles) >= 2 THEN SomeSet(run_tiles) ELSE NoSet

\* try_form_run
TryFormRun(inventory, start_number, color) ==
    LET run_tiles == RunTiles(inventory, start_number, color)
    IN  IF Len(run_tiles) >= 3 THEN SomeSet(run_tiles) ELSE NoSet

\* the loop of try_form_set_incl_jokers from color on, returning at three tiles
RECURSIVE SetTilesInclJokers(_, _, _, _, _)
SetTilesInclJokers(inventory, number, color, set_tiles, jokers_used) ==
    IF color = NumColors THEN NoSet
    ELSE LET real == inventory.grid[number - 1][color] > 0
             joker == ~real /\ jokers_used < inventory.jokers
             pushed == IF real THEN Append(set_tiles, Tile(color, number, FALSE))
                       ELSE IF joker THEN Append(set_tiles, Tile(color, number, TRUE))
                       ELSE set_tiles
         IN  IF Len(pushed) = 3 THEN SomeSet(pushed)
             ELSE SetTilesInclJokers(inventory, number, color + 1, pushed,
                                     IF joker THEN jokers_used + 1 ELSE jokers_used)

\* try_form_set_incl_jokers (no caller)
TryFormSetInclJokers(inventory, number) ==
    SetTilesInclJokers(inventory, number, 0, <<>>, 0)

\* the loop of try_form_run_incl_jokers from number on
RECURSIVE RunTilesInclJokers(_, _, _, _)
RunTilesInclJokers(inventory, number, color, jokers_used) ==
    IF number > NumNumbers THEN <<>>
    ELSE IF inventory.grid[number - 1][color] > 0
         THEN <<Tile(color, number, FALSE)>>
              \o RunTilesInclJokers(inventory, number + 1, color, jokers_used)
         ELSE IF jokers_used < inventory.jokers
         THEN <<Tile(color, number, TRUE)>>
              \o RunTilesInclJokers(inventory, number + 1, color, jokers_used + 1)
         ELSE <<>>

\* try_form_run_incl_jokers (no caller)
TryFormRunInclJokers(inventory, start_number, color) ==
    LET run_tiles == RunTilesInclJokers(inventory, start_number, color, 0)
    IN  IF Len(run_tiles) >= 3 THEN SomeSet(run_tiles) ELSE NoSet

----------------------------------------------------------------------------
(* solve_rummikub *)

\* Option<Vec<Set>>
None == [found |-> FALSE, sets |-> <<>>]
Some(sets) == [found |-> TRUE, sets |-> sets]

\* memo.insert(hash, value)
MemoInsert(m, hash, value) == (hash :> value) @@ m

\* the search calling the finder that stops at three tiles and places jokers
FindGroupInclJokers(inventory, number) == TryFormSetInclJokers(inventory, number)

\* the search asking for a group of all four colors
FindGroupFour(inventory, number) ==
    IF Len(SetTiles(inventory, number, 0)) > 3
    THEN SomeSet(SetTiles(inventory, number, 0)) ELSE NoSet

\* the group the search tries at a cell
FindGroup(inventory, number) == TryFormSet(inventory, number)

\* the run the search tries at a cell
FindRun(inventory, number, color) == TryFormRun(inventory, number, color)

\* an exhausted search that caches nothing
InsertNotFoundSkip(m, hash) == m

\* memo.insert(hash, None) at the end of an exhausted search
InsertNotFound(m, hash) == MemoInsert(m, hash, None)

RECURSIVE SolveRummikub(_, _)
RECURSIVE SolveCells(_, _, _, _, _, _)

\* What one meld attempt of the loop body comes to, sub being the recursive
\* call's outcome: on Some, push the meld, cache under hash and return.
\* calls counts the invocations of solve_rummikub, tried those of the finders.
MeldOutcome(hash, meld, sub, calls, tried) ==
    IF sub.result.found
    THEN [returned |-> TRUE,
          result |-> Some(Append(sub.result.sets, meld.tiles)),
          memo |-> MemoInsert(sub.memo, hash, Some(Append(sub.result.sets, meld.tiles))),
          calls |-> calls + sub.calls, tried |-> tried + sub.tried + 1]
    ELSE [returned |-> FALSE, result |-> None, memo |-> sub.memo,
          calls |-> calls + sub.calls, tried |-> tried + sub.tried + 1]

\* if let Some(meld) = ...: copy the inventory, remove the meld's tiles, recurse
TryMeld(inventory, hash, meld, m, calls, tried) ==
    Bind(meld, LAMBDA set :
        IF ~set.some
        THEN [returned |-> FALSE, result |-> None, memo |-> m,
              calls |-> calls, tried |-> tried + 1]
        ELSE Bind(SolveRummikub(RemoveTiles(inventory, set.tiles), m),
                  LAMBDA sub : MeldOutcome(hash, set, sub, calls, tried)))

\* the first cell at or after k, in the order of the nested for loops (number
\* outer, color inner), that passes the test grid[number - 1][color] > 0;
\* NumCells when the loops run out
NextCell(inventory, k) ==
    IF \A c \in k..(NumCells - 1) : inventory.grid[c \div NumColors][c % NumColors] = 0
    THEN NumCells
    ELSE CHOOSE c \in k..(NumCells - 1) :
            /\ inventory.grid[c \div NumColors][c % NumColors] > 0
            /\ \A d \in k..(c - 1) : inventory.grid[d \div NumColors][d % NumColors] = 0

\* the loop body after the run attempt r at cell c: return, or go on to the next cell
AfterRun(inventory, hash, c, r) ==
    IF r.returned
    THEN [result |-> r.result, memo |-> r.memo, calls |-> r.calls, tried |-> r.tried]
    ELSE SolveCells(inventory, hash, c + 1, r.memo, r.calls, r.tried)

\* the loop body after the group attempt g at cell c: return, or try the run
AfterGroup(inventory, hash, c, g) ==
    IF g.returned
    THEN [result |-> g.result, memo |-> g.memo, calls |-> g.calls, tried |-> g.tried]
    ELSE Bind(TryMeld(inventory, hash,
                      FindRun(inventory, (c \div NumColors) + 1, c % NumColors),
                      g.memo, g.calls, g.tried),
              LAMBDA r : AfterRun(inventory, hash, c, r))

\* the loop body at cell c, or the end of the loops at c = NumCells
AtCell(inventory, hash, c, m, calls, tried) ==
    IF c = NumCells
    THEN [result |-> None, memo |-> InsertNotFound(m, hash),
          calls |-> calls, tried |-> tried]
    ELSE Bind(TryMeld(inventory, hash, FindGroup(inventory, (c \div NumColors) + 1),
                      m, calls, tried),
              LAMBDA g : AfterGroup(inventory, hash, c, g))

\* the nested for loops of solve_rummikub from cell k (row-major) on
SolveCells(inventory, hash, k, m, calls, tried) ==
    Bind(NextCell(inventory, k), LAMBDA c : AtCell(inventory, hash, c, m, calls, tried))

\* solve_rummikub once the key is computed
SolveKeyed(inventory, hash, m) ==
    IF hash \in DOMAIN m
    THEN [result |-> m[hash], memo |-> m, calls |-> 1, tried |-> 0]
    ELSE IF IsEmpty(inventory)
    THEN [result |-> Some(<<>>), memo |-> m, calls |-> 1, tried |-> 0]
    ELSE SolveCells(inventory, hash, 0, m, 1, 0)

\* solve_rummikub
SolveRummikub(inventory, m) ==
    Bind(inventory, LAMBDA inv :
        Bind(m, LAMBDA mm :
            Bind(Hash(inv), LAMBDA hash : SolveKeyed(inv, hash, mm))))

----------------------------------------------------------------------------
(* grab_tile *)

\* What the two random choices of grab_tile can come to: "joker" when
\* gen_bool(jokers / total) can be true, a cell of available_tiles when it
\* can be false, and "none" when choose finds available_tiles empty.
GrabChoices(source) ==
    LET total_tiles == TotalTileCount(source)
        avail == AvailableTiles(source)
    IN  (IF source.jokers > 0 THEN {<<"joker">>} ELSE {})
        \cup (IF source.jokers = 0 \/ source.jokers < total_tiles
              THEN (IF avail = {} THEN {<<"none">>}
                    ELSE {<<"tile", c[1], c[2]>> : c \in avail})
              ELSE {})

\* grab_tile giving the destination a unit it does not take from the source
GrabTileCopy(source, destination, choice) ==
    IF choice[1] = "joker"
    THEN [source |-> source,
          destination |-> [destination EXCEPT !.jokers = @ + 1], fault |-> FALSE]
    ELSE IF choice[1] = "tile"
    THEN [source |-> source,
          destination |-> [destination EXCEPT !.grid[choice[2]][choice[3]] = @ + 1],
          fault |-> FALSE]
    ELSE [source |-> source, destination |-> destination, fault |-> FALSE]

\* grab_tile with its random choices made.  fault: whether the call ends in
\* an error or a panic; the function returns () and no branch has one.
GrabTile(source, destination, choice) ==
    IF choice[1] = "joker"
    THEN [source |-> [source EXCEPT !.jokers = @ - 1],
          destination |-> [destination EXCEPT !.jokers = @ + 1],
          fault |-> FALSE]
    ELSE IF choice[1] = "tile"
    THEN [source |-> [source EXCEPT !.grid[choice[2]][choice[3]] = @ - 1],
          destination |-> [destination EXCEPT !.grid[choice[2]][choice[3]] = @ + 1],
          fault |-> FALSE]
    ELSE [source |-> source, destination |-> destination, fault |-> FALSE]

----------------------------------------------------------------------------
(* solve(): the session *)

EmptyMemo == <<>>

NoProbe == [calls |-> 0, tried |-> 0]

Init ==
    /\ memo = EmptyMemo
    /\ player = NewInventory(0)
    /\ bag = NewInventory(BagCount)
    /\ pc = "start"
    /\ solution = None
    /\ draws = 0
    /\ probe = NoProbe

\* solve_rummikub(&player, &mut memo) before the loop; the result is dropped
FirstSolve ==
    /\ pc = "start"
    /\ \E r \in {SolveRummikub(player, memo)} : memo' = r.memo
    /\ pc' = "grab"
    /\ UNCHANGED <<player, bag, solution, draws, probe>>

\* the draws the model follows: those of a joker, and of a tile of the cells 0 .. cells - 1
DrawChoices(source, cells) ==
    {c \in GrabChoices(source) : c[1] = "tile" => NumColors * c[2] + c[3] < cells}

\* grab_tile writes through its two &mut parameters
Grabbed(g) ==
    /\ bag' = g.source
    /\ player' = g.destination

\* grab_tile(&mut bag, &mut player) at the top of the loop
Grab(cells) ==
    /\ pc = "grab"
    /\ \E choice \in DrawChoices(bag, cells) :
          \E g \in {GrabTile(bag, player, choice)} : Grabbed(g)
    /\ draws' = draws + 1
    /\ pc' = "solve"
    /\ UNCHANGED <<memo, solution, probe>>

\* match solution: Some breaks out of the loop, None goes round again
MatchSolution(r) ==
    /\ memo' = r.memo
    /\ solution' = r.result
    /\ pc' = IF r.result.found THEN "done" ELSE "grab"

\* let solution = solve_rummikub(&player, &mut memo); match solution
SolvePlayer ==
    /\ pc = "solve"
    /\ \E r \in {SolveRummikub(player, memo)} : MatchSolution(r)
    /\ UNCHANGED <<player, bag, draws, probe>>

GrabStep == draws < MaxDraws /\ Grab(DrawCells)

Next == FirstSolve \/ GrabStep \/ SolvePlayer

Spec == Init /\ [][Next]_vars

----------------------------------------------------------------------------
(* The session run to its end: no cap on the draws.  The loop of solve()   *)
(* has no blocking step, so it goes on while it has a step to take.        *)

LiveGrab == Grab(LiveCells)

LiveNext == FirstSolve \/ LiveGrab \/ SolvePlayer

SpecLive == Init /\ [][LiveNext]_vars /\ WF_vars(LiveNext)

----------------------------------------------------------------------------
(* solve_rummikub called twice in a row on one hand.  The hand is drawn     *)
(* with grab_tile from a full supply; the memo is empty at the first call.  *)

CallInit ==
    /\ memo = EmptyMemo
    /\ player = NewInventory(0)
    /\ bag = NewInventory(BagCount)
    /\ pc = "fill"
    /\ solution = None
    /\ draws = 0
    /\ probe = NoProbe

CallGrab ==
    /\ pc = "fill"
    /\ draws < CallTiles
    /\ \E choice \in DrawChoices(bag, CallCells) :
          \E g \in {GrabTile(bag, player, choice)} : Grabbed(g)
    /\ draws' = draws + 1
    /\ UNCHANGED <<memo, pc, solution, probe>>

FirstCallResult(r) ==
    /\ memo' = r.memo
    /\ solution' = r.result
    /\ probe' = [calls |-> r.calls, tried |-> r.tried]

\* the first solve_rummikub(&player, &mut memo)
CallFirst ==
    /\ pc = "fill"
    /\ \E r \in {SolveRummikub(player, memo)} : FirstCallResult(r)
    /\ pc' = "first"
    /\ UNCHANGED <<player, bag, draws>>

SecondCallResult(r) ==
    /\ memo' = r.memo
    /\ probe' = [calls |-> r.calls, tried |-> r.tried, result |-> r.result]

\* the second solve_rummikub(&player, &mut memo), with the memo the first one left
CallSecond ==
    /\ pc = "first"
    /\ \E r \in {SolveRummikub(player, memo)} : SecondCallResult(r)
    /\ pc' = "second"
    /\ UNCHANGED <<player, bag, solution, draws>>

CallNext == CallGrab \/ CallFirst \/ CallSecond

SpecCall == CallInit /\ [][CallNext]_vars

----------------------------------------------------------------------------
(* grab_tile called on small sources, down to the empty one *)

\* an inventory from its 52 cell counts, row-major, and its joker count
FromCounts(counts, jokers) ==
    [grid |-> [i \in 0..(NumNumbers - 1) |->
                 [j \in 0..(NumColors - 1) |-> counts[NumColors * i + j + 1]]],
     jokers |-> jokers]

\* the inventories whose tiles are in the cells 0 .. cells - 1
InventoriesIn(cells) ==
    {FromCounts([k \in 1..NumCells |-> IF k <= cells THEN f[k] ELSE 0], j) :
        f \in [1..cells -> 0..BagCount], j \in 0..BagCount}

GrabInit ==
    /\ memo = EmptyMemo
    /\ player = NewInventory(0)
    /\ bag \in InventoriesIn(GrabCells)
    /\ pc = "grabbing"
    /\ solution = None
    /\ draws = 0
    /\ probe = [called |-> FALSE]

GrabResult(source, destination, g) ==
    /\ bag' = g.source
    /\ player' = g.destination
    /\ probe' = [called |-> TRUE, fault |-> g.fault,
                 source |-> source, destination |-> destination]

\* grab_tile(&mut bag, &mut player)
GrabCall ==
    /\ pc = "grabbing"
    /\ draws < GrabCalls
    /\ \E choice \in GrabChoices(bag) :
          \E g \in {GrabTile(bag, player, choice)} : GrabResult(bag, player, g)
    /\ draws' = draws + 1
    /\ UNCHANGED <<memo, pc, solution>>

GrabNext == GrabCall

SpecGrab == GrabInit /\ [][GrabNext]_vars

----------------------------------------------------------------------------
(* Inventory::hash on pairs of inventories *)

\* Two hands the supply can deal (counts 0 .. 2), found by lattice reduction of
\* sum d[k] * 31^(52 - k) + dj = 0 (mod 2^64): CollisionA has 9 tiles and a
\* joker, CollisionB 14 tiles and no joker.
CollisionA ==
    FromCounts(<<0, 0, 0, 0,  0, 0, 1, 0,  0, 0, 0, 0,  0, 0, 0, 0,
                 2, 0, 2, 1,  0, 1, 0, 0,  0, 1, 0, 0,  0, 0, 0, 1,
                 0, 0, 0, 0,  0, 0, 0, 0,  0, 0, 0, 0,  0, 0, 0, 0,
                 0, 0, 0, 0>>, 1)

CollisionB ==
    FromCounts(<<0, 2, 0, 0,  1, 0, 0, 0,  1, 0, 1, 1,  1, 2, 2, 0,
                 0, 1, 0, 0,  0, 0, 0, 0,  0, 0, 1, 0,  0, 0, 1, 0,
                 0, 0, 0, 0,  0, 0, 0, 0,  0, 0, 0, 0,  0, 0, 0, 0,
                 0, 0, 0, 0>>, 0)

\* the hashed inventories: the two above, the empty one, and those with one
\* tile in one of the first HashCells cells, each with 0 .. 2 jokers
HashInputs ==
    {[inv EXCEPT !.jokers = j] :
        inv \in {CollisionA, CollisionB, NewInventory(0)}
                \cup {FromCounts([k \in 1..NumCells |-> IF k = c THEN 1 ELSE 0], 0) :
                         c \in 1..HashCells},
        j \in 0..BagCount}

HashInit ==
    /\ memo = EmptyMemo
    /\ player \in HashInputs
    /\ bag \in HashInputs
    /\ pc = "hash"
    /\ solution = None
    /\ draws = 0
    /\ probe = [hashed |-> FALSE]

\* player.hash() and bag.hash()
HashBoth ==
    /\ pc = "hash"
    /\ probe' = [hashed |-> TRUE, first |-> Hash(player), second |-> Hash(bag)]
    /\ pc' = "hashed"
    /\ UNCHANGED <<memo, player, bag, solution, draws>>

HashNext == HashBoth

SpecHash == HashInit /\ [][HashNext]_vars

----------------------------------------------------------------------------
(* What a meld is (the comment on struct Set) and what a partition is *)

\* Group of 3 or 4 tiles with same number and different colors
IsGroup(tiles) ==
    /\ Len(tiles) \in 3..4
    /\ \A a, b \in 1..Len(tiles) :
          /\ tiles[a].number = tiles[b].number
          /\ a # b => tiles[a].color # tiles[b].color

\* run of 3 or more tiles with same color and consecutive numbers
IsRun(tiles) ==
    /\ Len(tiles) >= 3
    /\ \A a \in 1..Len(tiles) : tiles[a].color = tiles[1].color
    /\ \A a \in 1..(Len(tiles) - 1) : tiles[a + 1].number = tiles[a].number + 1

\* how many tiles of the melds are the real tile of grid cell (i, j)
RealCount(sets, i, j) ==
    Cardinality({p \in {<<a, b>> : a \in 1..Len(sets), b \in 1..4 * NumNumbers} :
                    /\ p[2] <= Len(sets[p[1]])
                    /\ ~sets[p[1]][p[2]].is_joker
                    /\ sets[p[1]][p[2]].number = i + 1
                    /\ sets[p[1]][p[2]].color = j})

\* how many tiles of the melds are jokers
JokersPlaced(sets) ==
    Cardinality({p \in {<<a, b>> : a \in 1..Len(sets), b \in 1..4 * NumNumbers} :
                    p[2] <= Len(sets[p[1]]) /\ sets[p[1]][p[2]].is_joker})

\* the melds hold the inventory's real tiles, each once, and no more jokers than it has
ExactlyConsumes(sets, inventory) ==
    /\ \A i \in 0..(NumNumbers - 1) : \A j \in 0..(NumColors - 1) :
          RealCount(sets, i, j) = inventory.grid[i][j]
    /\ JokersPlaced(sets) <= inventory.jokers

----------------------------------------------------------------------------
(* Claims *)

\* C1: every meld of a Found result of the session is a group (3 or 4 tiles,
\* one number, pairwise distinct colors) or a run (3 or more tiles, one color,
\* consecutive numbers).
C1MeldsValid ==
    solution.found =>
        \A a \in 1..Len(solution.sets) : IsGroup(solution.sets[a]) \/ IsRun(solution.sets[a])

\* the session ends on a hand that is one run
C1Witness ==
    pc = "done" /\ Len(solution.sets) = 1 /\ IsRun(solution.sets[1])

\* C2: the melds of a Found result of the session hold exactly the hand's real
\* tiles, each in one meld and none left over, and place no more jokers than
\* the hand has.
C2ExactConsumption ==
    solution.found => ExactlyConsumes(solution.sets, player)

\* the session ends on a hand that is one group
C2Witness ==
    pc = "done" /\ Len(solution.sets) = 1 /\ IsGroup(solution.sets[1])

\* C3: two inventories that differ in a cell count or in the joker count have
\* different hashes.
C3Injective ==
    (pc = "hashed" /\ player # bag) => probe.first # probe.second

\* C4: the second of two calls of solve_rummikub in a row on one hand returns
\* what the first returned, makes no recursive call and calls no finder.
C4Transparent ==
    pc = "second" =>
        /\ probe.result = solution
        /\ probe.calls = 1
        /\ probe.tried = 0

\* the hand has a partition of two melds, which the first call had to search for
C4Witness ==
    pc = "second" /\ solution.found /\ Len(solution.sets) = 2

\* the hand of claim C5: the tiles n and n + 2 of one color, and one joker
GapHand(n, color) ==
    [grid |-> [i \in 0..(NumNumbers - 1) |-> [j \in 0..(NumColors - 1) |->
                 IF j = color /\ (i = n - 1 \/ i = n + 1) THEN 1 ELSE 0]],
     jokers |-> 1]

\* C5: on the tiles n and n + 2 of one color and one joker, with an empty memo,
\* solve_rummikub returns Found with the single run n, joker for n + 1, n + 2.
C5JokerRun ==
    \A n \in 1..(NumNumbers - 2) : \A color \in 0..(NumColors - 1) :
        (pc = "first" /\ player = GapHand(n, color)) =>
            solution = Some(<< <<Tile(color, n, FALSE), Tile(color, n + 1, TRUE),
                                 Tile(color, n + 2, FALSE)>> >>)

C7RejectsEmpty ==
    (probe.called /\ TotalTileCount(probe.source) = 0) => probe.fault

\* the colors of a number the inventory has a tile of
ColorsOf(inventory, number) ==
    {j \in 0..(NumColors - 1) : inventory.grid[number - 1][j] > 0}

\* the melds of the result that are groups have exactly three tiles
GroupsOfThree(sets) ==
    \A a \in 1..Len(sets) : IsGroup(sets[a]) => Len(sets[a]) = 3

\* C8 as claimed: the group finder the search calls never returns four tiles,
\* and every group of a Found result has exactly three.
C8NeverFour ==
    /\ \A number \in 1..NumNumbers :
          FindGroup(player, number).some => Len(FindGroup(player, number).tiles) = 3
    /\ (pc = "first" /\ solution.found) => GroupsOfThree(solution.sets)

\* C8 as amended: the group finder the search calls returns a group exactly
\* when the number has tiles of three or four colors, and the group then
\* holds one real tile of every such color, in color order: four tiles when
\* all four colors are there.
C8AllColors ==
    \A number \in 1..NumNumbers :
        /\ FindGroup(player, number).some <=> Cardinality(ColorsOf(player, number)) >= 3
        /\ FindGroup(player, number).some =>
              /\ Len(FindGroup(player, number).tiles) = Cardinality(ColorsOf(player, number))
              /\ \A a \in 1..Len(FindGroup(player, number).tiles) :
                    /\ FindGroup(player, number).tiles[a].color \in ColorsOf(player, number)
                    /\ FindGroup(player, number).tiles[a].number = number
                    /\ ~FindGroup(player, number).tiles[a].is_joker
                    /\ \A b \in 1..(a - 1) :
                          FindGroup(player, number).tiles[b].color
                              < FindGroup(player, number).tiles[a].color

\* a Found result with a group of four tiles
C8Witness ==
    /\ pc = "first"
    /\ solution.found
    /\ \E a \in 1..Len(solution.sets) : IsGroup(solution.sets[a]) /\ Len(solution.sets[a]) = 4

\* number 1: two red, two blue, one yellow, one black
GapInventory ==
    FromCounts([k \in 1..NumCells |-> IF k <= 2 THEN 2 ELSE IF k <= 4 THEN 1 ELSE 0], 0)

\* red-blue-yellow and red-blue-black
GapPartition ==
    << <<Tile(0, 1, FALSE), Tile(1, 1, FALSE), Tile(2, 1, FALSE)>>,
       <<Tile(0, 1, FALSE), Tile(1, 1, FALSE), Tile(3, 1, FALSE)>> >>

\* C9: there is an inventory with an exact partition into valid melds on which
\* solve_rummikub, with an empty memo, returns NotFound: GapInventory, which
\* GapPartition partitions.
C9CompletenessGap ==
    (pc = "first" /\ player = GapInventory) =>
        /\ ~solution.found
        /\ \A a \in 1..Len(GapPartition) : IsGroup(GapPartition[a])
        /\ ExactlyConsumes(GapPartition, player)

\* the first call has returned on GapInventory
C9Witness ==
    pc = "first" /\ player = GapInventory /\ solution = None

\* C10: after k calls of grab_tile the hand holds k tiles and jokers; each
\* unit of the hand is missing from the same cell (or the joker count) of the
\* supply, and no count of the supply is below zero.
C10DrawAccounting ==
    /\ TotalTileCount(player) = draws
    /\ \A i \in 0..(NumNumbers - 1) : \A j \in 0..(NumColors - 1) :
          /\ bag.grid[i][j] >= 0
          /\ bag.grid[i][j] + player.grid[i][j] = BagCount
    /\ bag.jokers >= 0
    /\ bag.jokers + player.jokers = BagCount

\* three draws made, a joker among them
C10Witness ==
    draws = 3 /\ player.jokers = 1 /\ pc = "solve"

====
